---- MODULE Spec2Model ----
(***************************************************************************)
(* Model of the Mega Rubric Scorer (brifl/ai-impact-calc):                 *)
(*   util.py                 numeric transforms                            *)
(*   models.py               RegimeMixture, RubricWeights, FactorOutput    *)
(*   magic_data_provider.py  the JSON-backed Signal Source                 *)
(*   mega_rubric_scorer.py   the seven evaluators and the aggregator       *)
(*                                                                         *)
(* Python floats are modelled as fixed-point numbers: the integer n stands *)
(* for n / S.  Every product and quotient is rounded to the nearest unit,  *)
(* as IEEE arithmetic rounds every operation to the nearest float.         *)
(***************************************************************************)
EXTENDS Integers, Sequences, FiniteSets, TLC

\* The fixed-point unit: S stands for the float 1.0.
S == 10000

-----------------------------------------------------------------------------
(* Rounded arithmetic                                                      *)

\* n / d rounded to the nearest integer, for d > 0.
RDiv(n, d) == (2 * n + d) \div (2 * d)

\* The float product a * b: a * b / S rounded, computed without overflow.
Mul(a, b) == a * (b \div S) + RDiv(a * (b % S), S)

\* The float quotient a / b for b > 0.
Div(a, b) == RDiv(a * S, b)

Max(a, b) == IF a >= b THEN a ELSE b

Min(a, b) == IF a <= b THEN a ELSE b

\* util.clamp: max(lo, min(hi, x)), in that order.
clamp(x, lo, hi) == Max(lo, Min(hi, x))

\* ln 2.
LN2 == 6931

RECURSIVE Pow2(_)
Pow2(n) == IF n <= 0 THEN 1 ELSE 2 * Pow2(n - 1)

\* e^r for 0 <= r < ln 2: the Taylor series, by Horner's rule.
RECURSIVE ExpHorner(_, _)
ExpHorner(r, i) == IF i > 9 THEN S ELSE S + RDiv(Mul(r, ExpHorner(r, i + 1)), i)

\* An exception leaving a function: what a call evaluates to when it raises.
Raised(error) == [raised |-> TRUE, error |-> error]

\* The OverflowError of the math module, by its args.
MathRangeError == <<"OverflowError", "math range error">>

\* math.exp raises OverflowError above ln(max float) = 709.78...
ExpOverflowsAbove == 709 * S + 7827

\* The call math.exp(y) raises.
ExpRaises(y) == y > ExpOverflowsAbove

\* A float too large for the integers of the model: mantissa * 2^exponent
\* units, with S <= mantissa <= 2 S.
Big(mantissa, exponent) == [mantissa |-> mantissa, exponent |-> exponent]

\* math.exp(y): y = n ln 2 + r with ln 2 taken to six places, e^y = 2^n e^r.
\* Above ln(max float) the call raises; a result above 2^31 - 1 units, which
\* the integers cannot hold, is kept as mantissa and exponent; below 2^-20
\* it is less than half a unit and rounds to 0.
Exp(y) ==
    IF ExpRaises(y) THEN Raised(MathRangeError)
    ELSE IF y < -20 * LN2 THEN 0
    ELSE LET n == (100 * y) \div 693147
             r == y - RDiv(n * 693147, 100)
             e == ExpHorner(r, 1)
         IN  IF n >= 0
             THEN (IF n <= 17 /\ e <= 2147483647 \div Pow2(n)
                   THEN e * Pow2(n)
                   ELSE Big(e, n))
             ELSE RDiv(e, Pow2(-n))

\* The binary exponent of x > 0: the e with S <= x / 2^e < 2 S.
RECURSIVE Exponent(_)
Exponent(x) ==
    IF x >= 2 * S THEN 1 + Exponent(x \div 2)
    ELSE IF x < S THEN Exponent(2 * x) - 1
    ELSE 0

\* ln m for S <= m < 2 S: 2 atanh((m - 1) / (m + 1)), as a series in z^2.
LnMantissa(m) ==
    LET z == Div(m - S, m + S)
        z2 == Mul(z, z)
        t9 == RDiv(S, 9)
        t7 == RDiv(S, 7) + Mul(z2, t9)
        t5 == RDiv(S, 5) + Mul(z2, t7)
        t3 == RDiv(S, 3) + Mul(z2, t5)
        t1 == S + Mul(z2, t3)
    IN  2 * Mul(z, t1)

\* math.log(x) for x > 0.
Ln(x) ==
    LET e == Exponent(x)
        m == IF e >= 0 THEN RDiv(x, Pow2(e)) ELSE x * Pow2(-e)
    IN  e * LN2 + LnMantissa(Min(m, 2 * S - 1))

\* x ** p for x >= 0 and p > 0 (0 ** p = 0, x ** 1.0 = x).
Pow(x, p) ==
    IF x = 0 THEN 0
    ELSE IF p = S THEN x
    ELSE Exp(Mul(p, Ln(x)))

-----------------------------------------------------------------------------
(* util.py                                                                 *)

\* util.sat_log: log1p(k * max(0, x)) / log1p(k).
sat_log(x, k) == Div(Ln(S + Mul(k, Max(0, x))), Ln(S + k))

\* The call logistic(x, k, x0) raises: its math.exp does.
logisticRaises(x, k, x0) == ExpRaises(-Mul(k, x - x0))

\* util.logistic: 1 / (1 + exp(-k (x - x0))), or the OverflowError of
\* math.exp.  For an exponent above 11 the quotient is below half a unit.
logistic(x, k, x0) ==
    LET y == -Mul(k, x - x0)
    IN  IF ExpRaises(y) THEN Raised(MathRangeError)
        ELSE IF y > 11 * S THEN 0
        ELSE Div(S, S + Exp(y))

\* util.to_minus1_plus1_from_0_1: 2 clamp(x, 0, 1) - 1.
to_minus1_plus1_from_0_1(x01) == 2 * clamp(x01, 0, S) - S

\* The call gate(value01, threshold, softness) raises: softness > 0 and the
\* math.exp of util.logistic gets -3 (v - threshold) / softness, an argument
\* above its range.
gateRaises(value01, threshold, softness) ==
    /\ softness > 0
    /\ logisticRaises(Div(clamp(value01, 0, S) - threshold, softness), 3 * S, 0)

\* util.gate: a hard step when softness <= 0, else a clamped logistic, or
\* the OverflowError of that logistic.
gate(value01, threshold, softness) ==
    LET v == clamp(value01, 0, S)
    IN  IF softness <= 0
        THEN (IF v >= threshold THEN S ELSE 0)
        ELSE IF gateRaises(value01, threshold, softness) THEN Raised(MathRangeError)
        ELSE clamp(logistic(Div(v - threshold, softness), 3 * S, 0), 0, S)

\* util.exp_downside_penalty: exp(-strength * clamp(b, 0, 1)), whatever
\* math.exp gives for it.
exp_downside_penalty(incident_score01, strength) ==
    Exp(-Mul(strength, clamp(incident_score01, 0, S)))

-----------------------------------------------------------------------------
(* models.py                                                               *)

TimeHorizon == {"0-2y", "2-5y", "5-12y"}

Regime ==
    {"power_constrained_boom", "power_constrained_stagflation", "trust_collapse",
     "regulatory_clampdown", "hyper_competition", "capital_concentration",
     "geopolitical_bifurcation", "security_arms_race"}

\* Optional[...] = None.
None == "None"

\* A dict is a sequence of <<key, value>> pairs with distinct keys, in
\* insertion order (the order Python iterates it in).
EmptyDict == <<>>

Keys(d) == {d[i][1] : i \in 1..Len(d)}

\* dict.get(key, default).
Get(d, key, default) ==
    IF key \in Keys(d)
    THEN d[CHOOSE i \in 1..Len(d) : d[i][1] = key][2]
    ELSE default

\* RegimeMixture.weights: a mapping from some regimes to weights.
WeightsGet(weights, r) == IF r \in DOMAIN weights THEN weights[r] ELSE 0

\* SumNonNeg with the floor of the clamp mistyped: max(0.1, v) for max(0.0, v).
RECURSIVE SumNonNegFloored(_, _)
SumNonNegFloored(weights, ks) ==
    IF ks = {} THEN 0
    ELSE LET k == CHOOSE x \in ks : TRUE
         IN  Max(1000, weights[k]) + SumNonNegFloored(weights, ks \ {k})

\* sum(max(0.0, float(v)) for v in self.weights.values())
RECURSIVE SumNonNeg(_, _)
SumNonNeg(weights, ks) ==
    IF ks = {} THEN 0
    ELSE LET k == CHOOSE x \in ks : TRUE
         IN  Max(0, weights[k]) + SumNonNeg(weights, ks \ {k})

\* The default mixture of RegimeMixture.normalized.
DefaultMixture ==
    [r \in {"power_constrained_boom", "security_arms_race", "trust_collapse",
            "hyper_competition"} |->
        IF r \in {"power_constrained_boom", "security_arms_race"} THEN 3500 ELSE 1500]

\* NormalizedRun dividing the weights as they are, negative ones included.
RECURSIVE NormalizedRunUnclamped(_, _)
NormalizedRunUnclamped(weights, depth) ==
    LET s == SumNonNeg(weights, DOMAIN weights)
    IN  IF s <= 0
        THEN NormalizedRunUnclamped(DefaultMixture, depth + 1)
        ELSE [weights |-> [k \in DOMAIN weights |-> Div(weights[k], s)],
              depth |-> depth]

\* NormalizedRun returning a mixture without positive weight as it is.
NormalizedRunKeepsInput(weights, depth) ==
    LET s == SumNonNeg(weights, DOMAIN weights)
    IN  IF s <= 0
        THEN [weights |-> weights, depth |-> depth]
        ELSE [weights |-> [k \in DOMAIN weights |-> Div(Max(0, weights[k]), s)],
              depth |-> depth]

\* RegimeMixture.normalized, with the depth of the recursion it ran to.
RECURSIVE NormalizedRun(_, _)
NormalizedRun(weights, depth) ==
    LET s == SumNonNeg(weights, DOMAIN weights)
    IN  IF s <= 0
        THEN NormalizedRun(DefaultMixture, depth + 1)
        ELSE [weights |-> [k \in DOMAIN weights |-> Div(Max(0, weights[k]), s)],
              depth |-> depth]

normalized(weights) == NormalizedRun(weights, 0).weights

\* FactorOutput(additive, gates, multipliers, risk, debug).
FactorOutput(additive, gates, multipliers, risk, debug) ==
    [additive |-> additive, gates |-> gates, multipliers |-> multipliers,
     risk |-> risk, debug |-> debug]

\* RubricWeights with its default field values.
DefaultWeights ==
    [w_macro |-> 1200, w_constraint |-> 1800, w_trust |-> 1800,
     w_control_points |-> 1800, w_adaptation |-> 1400, w_georeg |-> 1000,
     w_capital_alloc |-> 1000, risk_weight |-> 3500,
     score_min |-> -100 * S, score_max |-> 100 * S]

-----------------------------------------------------------------------------
(* magic_data_provider.py                                                  *)

\* METRICS_DOC, in catalog order.
METRICS_DOC ==
    << "macro.tightness_index", "macro.company_sensitivity",
       "constraint.power_access_good", "constraint.compute_access_good",
       "trust.security_maturity_good", "trust.auditability_good",
       "trust.provenance_support_good", "trust.security_incident_bad",
       "platform.distribution_lock_good", "platform.switching_cost_good",
       "platform.data_advantage_good", "platform.network_effects_good",
       "org.ship_velocity_good", "org.talent_density_good",
       "org.internal_agent_adoption_good", "org.restructure_velocity_good",
       "reg.compliance_readiness_good", "reg.liability_readiness_good",
       "geo.export_control_exposure_bad", "geo.sanctions_exposure_bad",
       "reg.antitrust_risk_bad",
       "capital.free_cash_flow_strength_good", "capital.balance_sheet_strength_good",
       "capital.mna_integration_skill_good", "capital.allocation_discipline_good",
       "capital.moonshot_propensity_bad" >>

MetricIds == {METRICS_DOC[i] : i \in 1..Len(METRICS_DOC)}

\* metric_data.get(key, default) on one entry of the loaded JSON.
Field(entry, key, default) == IF key \in DOMAIN entry THEN entry[key] ELSE default

\* get_value with a missing metric filled in by the defaults of an empty entry.
get_valueDefaultFilled(d, metric_id, company) ==
    IF company \notin DOMAIN d
    THEN [ok |-> FALSE, error |-> <<"Company not found in data", company>>]
    ELSE LET metric_data == IF metric_id \in DOMAIN d[company]
                            THEN d[company][metric_id] ELSE [scale |-> "raw"]
         IN  [ok |-> TRUE,
              value |-> Field(metric_data, "value", 0),
              scale |-> Field(metric_data, "scale", "raw"),
              confidence |-> Field(metric_data, "confidence", 8000),
              freshness_days |-> Field(metric_data, "freshness_days", 30)]

\* MagicDataProvider.get_value: ValueError when the company or the metric is
\* absent, else a fresh Signal built from the stored entry.
get_value(d, metric_id, company) ==
    IF company \notin DOMAIN d
    THEN [ok |-> FALSE, error |-> <<"Company not found in data", company>>]
    ELSE IF metric_id \notin DOMAIN d[company]
    THEN [ok |-> FALSE, error |-> <<"Metric not found for company", company, metric_id>>]
    ELSE LET metric_data == d[company][metric_id]
         IN  [ok |-> TRUE,
              value |-> Field(metric_data, "value", 0),
              scale |-> Field(metric_data, "scale", "raw"),
              confidence |-> Field(metric_data, "confidence", 8000),
              freshness_days |-> Field(metric_data, "freshness_days", 30)]

\* get_score mapping the stored value into whatever range is requested:
\* lo + v (hi - lo).
get_scoreIntoRange(d, metric_id, company, score_range) ==
    LET signal == get_value(d, metric_id, company)
    IN  IF ~signal.ok THEN signal
        ELSE [signal EXCEPT !.value =
                score_range[1] + Mul(signal.value, score_range[2] - score_range[1])]

\* self.data after a get_score call that writes the rescaled value back
\* into the stored entry.
DataAfterScoreWrittenBack(d, metric_id, company, score_range) ==
    IF get_value(d, metric_id, company).ok /\ score_range = <<-S, S>>
    THEN [d EXCEPT ![company][metric_id] =
            [k \in DOMAIN @ \cup {"value"} |->
                IF k = "value" THEN 2 * get_value(d, metric_id, company).value - S
                ELSE @[k]]]
    ELSE d

\* self.data after a get_score call: lines 80-86 build a new Signal from the
\* stored entry and line 110 assigns to that Signal, never to self.data.
DataAfterScore(d, metric_id, company, score_range) == d

\* MagicDataProvider.get_score: get_value, rescaled to 2 v - 1 only when the
\* requested range is (-1, 1).
get_score(d, metric_id, company, score_range) ==
    LET signal == get_value(d, metric_id, company)
    IN  IF ~signal.ok THEN signal
        ELSE IF score_range = <<-S, S>>
        THEN [signal EXCEPT !.value = 2 * signal.value - S]
        ELSE signal

\* MagicDataProvider.get_regime_mixture: a fixed mixture.
get_regime_mixture ==
    [r \in {"power_constrained_boom", "security_arms_race", "trust_collapse",
            "hyper_competition", "regulatory_clampdown"} |->
        CASE r = "power_constrained_boom" -> 2500
          [] r = "security_arms_race" -> 3000
          [] r = "trust_collapse" -> 1500
          [] r = "hyper_competition" -> 2000
          [] r = "regulatory_clampdown" -> 1000]

-----------------------------------------------------------------------------
(* mega_rubric_scorer.py: the factor group evaluators                      *)

\* self.p.get_score(metric_id, company=..., score_range=(0, 1)).value
Score01(d, metric_id, company) == get_score(d, metric_id, company, <<0, S>>).value

\* _macro_and_liquidity with the macro_tail channel left unclamped.
_macro_and_liquidityRiskUnclamped(d, company, mix) ==
    LET macro_fragile == Score01(d, "macro.company_sensitivity", company)
        macro_tight == Score01(d, "macro.tightness_index", company)
        defensive == S - clamp(macro_fragile, 0, S)
        additive01 == Mul(5000, defensive)
                      + Mul(Mul(5000, defensive), clamp(macro_tight, 0, S))
        risk_tail == Mul(macro_fragile, macro_tight)
    IN  FactorOutput(to_minus1_plus1_from_0_1(additive01), EmptyDict, EmptyDict,
                     << <<"macro_tail", risk_tail>> >>,
                     << <<"macro_fragile", macro_fragile>>,
                        <<"macro_tight", macro_tight>> >>)

\* MegaRubricScorer._macro_and_liquidity.
_macro_and_liquidity(d, company, mix) ==
    LET macro_fragile == Score01(d, "macro.company_sensitivity", company)
        macro_tight == Score01(d, "macro.tightness_index", company)
        defensive == S - clamp(macro_fragile, 0, S)
        additive01 == Mul(5000, defensive)
                      + Mul(Mul(5000, defensive), clamp(macro_tight, 0, S))
        risk_tail == clamp(Mul(macro_fragile, macro_tight), 0, S)
    IN  FactorOutput(to_minus1_plus1_from_0_1(additive01), EmptyDict, EmptyDict,
                     << <<"macro_tail", risk_tail>> >>,
                     << <<"macro_fragile", macro_fragile>>,
                        <<"macro_tight", macro_tight>> >>)

_constraint_regime(d, company, mix) ==
    LET power_access == Score01(d, "constraint.power_access_good", company)
        compute_access == Score01(d, "constraint.compute_access_good", company)
        g_power == gate(power_access, 5500, 800)
        g_compute == gate(compute_access, 5000, 1000)
        additive01 == Mul(5500, sat_log(power_access, 3 * S))
                      + Mul(4500, sat_log(compute_access, 2 * S))
        risk == clamp(Mul(S - power_access, 6000) + Mul(S - compute_access, 4000), 0, S)
    IN  FactorOutput(to_minus1_plus1_from_0_1(clamp(additive01, 0, S)),
                     << <<"power_gate", g_power>>, <<"compute_gate", g_compute>> >>,
                     EmptyDict,
                     << <<"power_constraint", risk>> >>,
                     << <<"power_access", power_access>>,
                        <<"compute_access", compute_access>> >>)

_trust_and_legitimacy(d, company, mix) ==
    LET security_maturity == Score01(d, "trust.security_maturity_good", company)
        auditability == Score01(d, "trust.auditability_good", company)
        provenance_support == Score01(d, "trust.provenance_support_good", company)
        incident_bad == Score01(d, "trust.security_incident_bad", company)
        incident_penalty == exp_downside_penalty(incident_bad, 35000)
        g_trust == clamp(incident_penalty, 0, S)
        quality01 == Mul(4500, security_maturity) + Mul(3500, auditability)
                     + Mul(2000, provenance_support)
        additive01 == logistic(quality01, 4 * S, 5500)
        trust_mult == Mul(6000 + Mul(5000, clamp(quality01, 0, S)), g_trust)
        risk == clamp(Mul(incident_bad, S - security_maturity), 0, S)
    IN  IF logisticRaises(quality01, 4 * S, 5500) THEN Raised(MathRangeError)
        ELSE
        FactorOutput(to_minus1_plus1_from_0_1(additive01),
                     << <<"trust_gate", g_trust>> >>,
                     << <<"trust_multiplier", clamp(trust_mult, 0, 12500)>> >>,
                     << <<"security_incident", risk>> >>,
                     << <<"security_maturity", security_maturity>>,
                        <<"auditability", auditability>>,
                        <<"provenance_support", provenance_support>>,
                        <<"incident_bad", incident_bad>>,
                        <<"quality01", quality01>> >>)

_control_point_concentration(d, company, mix) ==
    LET distribution_lock == Score01(d, "platform.distribution_lock_good", company)
        switching_cost == Score01(d, "platform.switching_cost_good", company)
        data_advantage == Score01(d, "platform.data_advantage_good", company)
        network_effects == Score01(d, "platform.network_effects_good", company)
        additive01 == Mul(3500, sat_log(distribution_lock, 4 * S))
                      + Mul(2500, sat_log(switching_cost, 3 * S))
                      + Mul(2000, sat_log(data_advantage, 2 * S))
                      + Mul(2000, sat_log(network_effects, 3 * S))
        regime_boost == Mul(WeightsGet(mix, "hyper_competition"), 1000)
                        + Mul(WeightsGet(mix, "capital_concentration"), 1200)
        flywheel == clamp(9500 + regime_boost + Mul(1500, clamp(distribution_lock, 0, S)),
                          0, 12500)
    IN  FactorOutput(to_minus1_plus1_from_0_1(clamp(additive01, 0, S)),
                     EmptyDict,
                     << <<"control_flywheel", flywheel>> >>,
                     EmptyDict,
                     << <<"distribution_lock", distribution_lock>>,
                        <<"switching_cost", switching_cost>>,
                        <<"data_advantage", data_advantage>>,
                        <<"network_effects", network_effects>>,
                        <<"flywheel", flywheel>> >>)

_adaptation_speed(d, company, mix) ==
    LET ship_velocity == Score01(d, "org.ship_velocity_good", company)
        talent_density == Score01(d, "org.talent_density_good", company)
        internal_agent_use == Score01(d, "org.internal_agent_adoption_good", company)
        cost_restructure == Score01(d, "org.restructure_velocity_good", company)
        additive01 == Mul(3000, ship_velocity) + Mul(3000, talent_density)
                      + Mul(2000, internal_agent_use) + Mul(2000, cost_restructure)
        disruption == WeightsGet(mix, "hyper_competition")
                      + WeightsGet(mix, "security_arms_race")
        adapt_mult == clamp(9000 + Mul(2500, clamp(additive01, 0, S))
                            + Mul(1000, clamp(disruption, 0, S)), 0, 12500)
        risk_exec == clamp(Mul(S - ship_velocity, 6000)
                           + Mul(S - cost_restructure, 4000), 0, S)
    IN  FactorOutput(to_minus1_plus1_from_0_1(clamp(additive01, 0, S)),
                     EmptyDict,
                     << <<"adaptation_multiplier", adapt_mult>> >>,
                     << <<"execution", risk_exec>> >>,
                     << <<"ship_velocity", ship_velocity>>,
                        <<"talent_density", talent_density>>,
                        <<"internal_agent_use", internal_agent_use>>,
                        <<"cost_restructure", cost_restructure>>,
                        <<"adapt_mult", adapt_mult>> >>)

_geopolitical_and_regulatory(d, company, mix) ==
    LET compliance_readiness == Score01(d, "reg.compliance_readiness_good", company)
        liability_ready == Score01(d, "reg.liability_readiness_good", company)
        export_controls_bad == Score01(d, "geo.export_control_exposure_bad", company)
        sanctions_bad == Score01(d, "geo.sanctions_exposure_bad", company)
        antitrust_bad == Score01(d, "reg.antitrust_risk_bad", company)
        readiness01 == Mul(5500, compliance_readiness) + Mul(4500, liability_ready)
        exposure01 == Mul(4500, export_controls_bad) + Mul(2500, sanctions_bad)
                      + Mul(3000, antitrust_bad)
        additive01 == clamp(Mul(readiness01, S - Mul(7000, exposure01)), 0, S)
        clampdown_weight == WeightsGet(mix, "regulatory_clampdown")
        reg_gate == Pow(gate(readiness01, 5500, 1000), S + 2 * clampdown_weight)
        risk_reg == clamp(Mul(S - readiness01, 6000) + Mul(antitrust_bad, 4000), 0, S)
        risk_geo == clamp(Mul(export_controls_bad, 7000) + Mul(sanctions_bad, 3000), 0, S)
    IN  FactorOutput(to_minus1_plus1_from_0_1(additive01),
                     << <<"regulatory_gate", reg_gate>> >>,
                     EmptyDict,
                     << <<"regulatory", risk_reg>>, <<"geopolitical", risk_geo>> >>,
                     << <<"compliance_readiness", compliance_readiness>>,
                        <<"liability_ready", liability_ready>>,
                        <<"export_controls_bad", export_controls_bad>>,
                        <<"sanctions_bad", sanctions_bad>>,
                        <<"antitrust_bad", antitrust_bad>>,
                        <<"readiness01", readiness01>>,
                        <<"exposure01", exposure01>>,
                        <<"reg_gate", reg_gate>> >>)

\* _capital_allocation reporting its risk under a channel name of its own.
_capital_allocationOwnChannel(d, company, mix) ==
    LET fcf_strength == Score01(d, "capital.free_cash_flow_strength_good", company)
        balance_sheet == Score01(d, "capital.balance_sheet_strength_good", company)
        mna_skill == Score01(d, "capital.mna_integration_skill_good", company)
        discipline == Score01(d, "capital.allocation_discipline_good", company)
        moonshot_bad == Score01(d, "capital.moonshot_propensity_bad", company)
        additive01 == clamp(Mul(3000, fcf_strength) + Mul(2500, balance_sheet)
                            + Mul(2000, mna_skill) + Mul(2500, discipline)
                            - Mul(2500, moonshot_bad), 0, S)
        conc == WeightsGet(mix, "capital_concentration")
        mna_mult == clamp(9500 + Mul(Mul(2000, conc), clamp(mna_skill, 0, S))
                          + Mul(Mul(1000, conc), clamp(balance_sheet, 0, S)), 0, 12000)
        risk_moon == clamp(Mul(moonshot_bad, S - discipline), 0, S)
    IN  FactorOutput(to_minus1_plus1_from_0_1(additive01),
                     EmptyDict,
                     << <<"mna_multiplier", mna_mult>> >>,
                     << <<"moonshot", risk_moon>> >>,
                     << <<"fcf_strength", fcf_strength>>,
                        <<"balance_sheet", balance_sheet>>,
                        <<"mna_skill", mna_skill>>,
                        <<"discipline", discipline>>,
                        <<"moonshot_bad", moonshot_bad>>,
                        <<"mna_mult", mna_mult>> >>)

\* MegaRubricScorer._capital_allocation.
_capital_allocation(d, company, mix) ==
    LET fcf_strength == Score01(d, "capital.free_cash_flow_strength_good", company)
        balance_sheet == Score01(d, "capital.balance_sheet_strength_good", company)
        mna_skill == Score01(d, "capital.mna_integration_skill_good", company)
        discipline == Score01(d, "capital.allocation_discipline_good", company)
        moonshot_bad == Score01(d, "capital.moonshot_propensity_bad", company)
        additive01 == clamp(Mul(3000, fcf_strength) + Mul(2500, balance_sheet)
                            + Mul(2000, mna_skill) + Mul(2500, discipline)
                            - Mul(2500, moonshot_bad), 0, S)
        conc == WeightsGet(mix, "capital_concentration")
        mna_mult == clamp(9500 + Mul(Mul(2000, conc), clamp(mna_skill, 0, S))
                          + Mul(Mul(1000, conc), clamp(balance_sheet, 0, S)), 0, 12000)
        risk_moon == clamp(Mul(moonshot_bad, S - discipline), 0, S)
    IN  FactorOutput(to_minus1_plus1_from_0_1(additive01),
                     EmptyDict,
                     << <<"mna_multiplier", mna_mult>> >>,
                     << <<"execution", risk_moon>> >>,
                     << <<"fcf_strength", fcf_strength>>,
                        <<"balance_sheet", balance_sheet>>,
                        <<"mna_skill", mna_skill>>,
                        <<"discipline", discipline>>,
                        <<"moonshot_bad", moonshot_bad>>,
                        <<"mna_mult", mna_mult>> >>)

-----------------------------------------------------------------------------
(* mega_rubric_scorer.py: the aggregator                                   *)

\* The keys of group_outputs, in the order score_company inserts them.
GroupOrder ==
    <<"macro", "constraint", "trust", "control_points", "adaptation", "georeg",
      "capital_alloc">>

Groups == {GroupOrder[i] : i \in 1..Len(GroupOrder)}

\* The metric ids each evaluator queries, in the order it queries them.
GroupMetrics(g) ==
    CASE g = "macro" ->
            <<"macro.company_sensitivity", "macro.tightness_index">>
      [] g = "constraint" ->
            <<"constraint.power_access_good", "constraint.compute_access_good">>
      [] g = "trust" ->
            <<"trust.security_maturity_good", "trust.auditability_good",
              "trust.provenance_support_good", "trust.security_incident_bad">>
      [] g = "control_points" ->
            <<"platform.distribution_lock_good", "platform.switching_cost_good",
              "platform.data_advantage_good", "platform.network_effects_good">>
      [] g = "adaptation" ->
            <<"org.ship_velocity_good", "org.talent_density_good",
              "org.internal_agent_adoption_good", "org.restructure_velocity_good">>
      [] g = "georeg" ->
            <<"reg.compliance_readiness_good", "reg.liability_readiness_good",
              "geo.export_control_exposure_bad", "geo.sanctions_exposure_bad",
              "reg.antitrust_risk_bad">>
      [] g = "capital_alloc" ->
            <<"capital.free_cash_flow_strength_good",
              "capital.balance_sheet_strength_good",
              "capital.mna_integration_skill_good",
              "capital.allocation_discipline_good",
              "capital.moonshot_propensity_bad">>

\* What the evaluator of group g evaluates to when every signal it queries
\* is present: its FactorOutput, or the exception its arithmetic raises.
Evaluator(g, d, company, mix) ==
    CASE g = "macro" -> _macro_and_liquidity(d, company, mix)
      [] g = "constraint" -> _constraint_regime(d, company, mix)
      [] g = "trust" -> _trust_and_legitimacy(d, company, mix)
      [] g = "control_points" -> _control_point_concentration(d, company, mix)
      [] g = "adaptation" -> _adaptation_speed(d, company, mix)
      [] g = "georeg" -> _geopolitical_and_regulatory(d, company, mix)
      [] g = "capital_alloc" -> _capital_allocation(d, company, mix)

\* The index of the first query of the evaluator that raises, 0 when none does.
FirstFailure(d, company, metrics) ==
    LET bad == {i \in 1..Len(metrics) : ~get_score(d, metrics[i], company, <<0, S>>).ok}
    IN  IF bad = {} THEN 0 ELSE CHOOSE i \in bad : \A j \in bad : i <= j

\* An evaluator whose queries were all answered: it returns its
\* FactorOutput, or the exception of its arithmetic leaves it.
Answered(metrics, out) ==
    IF "raised" \in DOMAIN out
    THEN [ok |-> FALSE, queries |-> metrics, error |-> out.error]
    ELSE [ok |-> TRUE, queries |-> metrics, out |-> out]

\* One evaluator call: the queries it issues, and its FactorOutput, or the
\* ValueError of the first failing query, after which it issues none, or
\* the exception raised after all its queries were answered.
RunEvaluator(g, d, company, mix) ==
    LET metrics == GroupMetrics(g)
        k == FirstFailure(d, company, metrics)
    IN  IF k = 0
        THEN Answered(metrics, Evaluator(g, d, company, mix))
        ELSE [ok |-> FALSE, queries |-> SubSeq(metrics, 1, k),
              error |-> get_score(d, metrics[k], company, <<0, S>>).error]

\* group_outputs.values(): the FactorOutputs in insertion order.
Values(group_outputs) == [i \in 1..Len(GroupOrder) |-> group_outputs[GroupOrder[i]]]

\* BaseAdditive without line 67, the clamp of the sum.
BaseAdditiveUnclamped(rw, go) ==
    Mul(rw.w_macro, go["macro"].additive)
    + Mul(rw.w_constraint, go["constraint"].additive)
    + Mul(rw.w_trust, go["trust"].additive)
    + Mul(rw.w_control_points, go["control_points"].additive)
    + Mul(rw.w_adaptation, go["adaptation"].additive)
    + Mul(rw.w_georeg, go["georeg"].additive)
    + Mul(rw.w_capital_alloc, go["capital_alloc"].additive)

\* base: the weighted sum of the seven additive values, clamped to [-1, 1].
BaseAdditive(rw, go) ==
    clamp(Mul(rw.w_macro, go["macro"].additive)
          + Mul(rw.w_constraint, go["constraint"].additive)
          + Mul(rw.w_trust, go["trust"].additive)
          + Mul(rw.w_control_points, go["control_points"].additive)
          + Mul(rw.w_adaptation, go["adaptation"].additive)
          + Mul(rw.w_georeg, go["georeg"].additive)
          + Mul(rw.w_capital_alloc, go["capital_alloc"].additive), -S, S)

\* for _, m in dict.items(): acc *= clamp(m, 0.0, hi)
RECURSIVE TimesClamped(_, _, _, _)
TimesClamped(acc, dict, i, hi) ==
    IF i > Len(dict) THEN acc
    ELSE TimesClamped(Mul(acc, clamp(dict[i][2], 0, hi)), dict, i + 1, hi)

\* gate_mult = 1.0 before the loop over the groups.
GateMultStart == S

\* mult_prod = 1.0 before the loop over the groups.
MultProdStart == S

\* GateMultiplier leaving out the gates that are closed, so that a closed
\* gate takes nothing from the score.
RECURSIVE GateMultiplierSkippingClosed(_, _, _)
GateMultiplierSkippingClosed(acc, outs, i) ==
    IF i > Len(outs) THEN acc
    ELSE GateMultiplierSkippingClosed(
             TimesClamped(acc, SelectSeq(outs[i].gates, LAMBDA e : e[2] > 0), 1, S),
             outs, i + 1)

\* gate_mult after the loop over outs[i..].
RECURSIVE GateMultiplier(_, _, _)
GateMultiplier(acc, outs, i) ==
    IF i > Len(outs) THEN acc
    ELSE GateMultiplier(TimesClamped(acc, outs[i].gates, 1, S), outs, i + 1)

\* mult_prod after the loop over outs[i..].
RECURSIVE MultiplierProduct(_, _, _)
MultiplierProduct(acc, outs, i) ==
    IF i > Len(outs) THEN acc
    ELSE MultiplierProduct(TimesClamped(acc, outs[i].multipliers, 1, 12500), outs, i + 1)

\* channel_weights of _aggregate_risk.
channel_weights ==
    [macro_tail |-> 1800, power_constraint |-> 1800, security_incident |-> 2200,
     regulatory |-> 1600, geopolitical |-> 1600, execution |-> 1000]

\* The inner loop of _aggregate_risk over one group's risk dict.
RECURSIVE RiskChannels(_, _, _)
RiskChannels(acc, risk, i) ==
    IF i > Len(risk) THEN acc
    ELSE LET ch == risk[i][1]
             v == risk[i][2]
         IN  IF ch \in DOMAIN channel_weights
             THEN RiskChannels([accum |-> acc.accum + Mul(channel_weights[ch], clamp(v, 0, S)),
                                wsum |-> acc.wsum + channel_weights[ch]], risk, i + 1)
             ELSE RiskChannels(acc, risk, i + 1)

\* The outer loop of _aggregate_risk over the groups.
RECURSIVE RiskGroups(_, _, _)
RiskGroups(acc, outs, i) ==
    IF i > Len(outs) THEN acc
    ELSE RiskGroups(RiskChannels(acc, outs[i].risk, 1), outs, i + 1)

\* _aggregate_risk dividing by the weight of the whole table, not by the
\* weight of the channels emitted.
_aggregate_riskTableTotal(outs) ==
    LET t == RiskGroups([accum |-> 0, wsum |-> 0], outs, 1)
    IN  IF t.wsum <= 0 THEN 2500 ELSE clamp(Div(t.accum, S), 0, S)

\* MegaRubricScorer._aggregate_risk over group_outputs.values().
_aggregate_risk(outs) ==
    LET t == RiskGroups([accum |-> 0, wsum |-> 0], outs, 1)
    IN  IF t.wsum <= 0 THEN 2500 ELSE clamp(Div(t.accum, t.wsum), 0, S)

\* risk_discount = clamp(1.0 - risk_weight * risk_index ** 1.2, 0.0, 1.0)
RiskDiscount(rw, risk_index) == clamp(S - Mul(rw.risk_weight, Pow(risk_index, 12000)), 0, S)

\* final: 100 * clamp(raw, -1, 1), clamped to [score_min, score_max].
FinalScore(rw, raw) == clamp(100 * clamp(raw, -S, S), rw.score_min, rw.score_max)

\* The ScoreBreakdown score_company returns once the seven outputs exist.
Breakdown(rw, c, mx, go) ==
    LET outs == Values(go)
        base == BaseAdditive(rw, go)
        gate_mult == GateMultiplier(GateMultStart, outs, 1)
        mult_prod == MultiplierProduct(MultProdStart, outs, 1)
        risk_index == _aggregate_risk(outs)
        raw == Mul(Mul(Mul(base, gate_mult), mult_prod), RiskDiscount(rw, risk_index))
    IN  [company |-> c.company, horizon |-> c.horizon, as_of |-> c.as_of,
         regime_mixture |-> mx, group_outputs |-> go,
         base_additive |-> base, gate_multiplier |-> gate_mult,
         multiplier_product |-> mult_prod, risk_index |-> risk_index,
         final_score |-> FinalScore(rw, raw)]

-----------------------------------------------------------------------------
(* The inputs the model draws from                                         *)

\* The number of datasets the provider may have loaded.
NumDatasets == 7

\* The signal values the datasets are built from, some outside [0, 1].
LevelVals == <<0, 10000, 1000, 5500, 20000, 12000, -5000, 15000, 9000, 7000, 6000>>

MetricIndex(m) == CHOOSE i \in 1..Len(METRICS_DOC) : METRICS_DOC[i] = m

\* The metrics whose 1.0 is the bad end of the scale.
BadMetrics ==
    {"macro.company_sensitivity", "trust.security_incident_bad",
     "geo.export_control_exposure_bad", "geo.sanctions_exposure_bad",
     "reg.antitrust_risk_bad", "capital.moonshot_propensity_bad"}

\* One stored metric entry of data.json.
Entry(v) == [value |-> v, scale |-> "score_0_1", confidence |-> 9000, freshness_days |-> 7]

\* The metrics the gates of the constraint and georeg groups read.
GateMetrics ==
    {"constraint.power_access_good", "constraint.compute_access_good",
     "reg.compliance_readiness_good", "reg.liability_readiness_good"}

\* A security maturity far below the scale, as a raw reading stored in
\* place of a score.
FarBelowScale == -400 * S

\* The k-th value profile: all good, all bad, feasible but weak, spreads
\* over LevelVals, and as the seventh mid-scale values around a security
\* maturity far below the scale.
ProfileValue(k, m) ==
    IF k = 1 THEN (IF m \in BadMetrics THEN 0 ELSE S)
    ELSE IF k = 2 THEN (IF m \in BadMetrics THEN S ELSE 0)
    ELSE IF k = 3
    THEN (IF m \in GateMetrics THEN 8000
          ELSE IF m = "trust.security_incident_bad" THEN 1000
          ELSE IF m \in BadMetrics THEN 7000 ELSE 2000)
    ELSE IF k = 7
    THEN (IF m = "trust.security_maturity_good" THEN FarBelowScale ELSE 5000)
    ELSE LevelVals[((MetricIndex(m) * (2 * k + 1) + k) % Len(LevelVals)) + 1]

\* The k-th dataset: Alpha has every metric; Beta lacks one metric and has
\* one entry without a "value" key; no other company is present.
Dataset(k) ==
    LET missing == METRICS_DOC[((5 * k) % Len(METRICS_DOC)) + 1]
        bare == METRICS_DOC[((5 * k + 7) % Len(METRICS_DOC)) + 1]
    IN  [c \in {"Alpha", "Beta"} |->
            IF c = "Alpha"
            THEN [m \in MetricIds |-> Entry(ProfileValue(k, m))]
            ELSE [m \in MetricIds \ {missing} |->
                    IF m = bare THEN [scale |-> "raw"]
                    ELSE Entry(ProfileValue(k + 1, m))]]

Datasets == {Dataset(k) : k \in 1..NumDatasets}

\* The RubricWeights the scorer may be constructed with.
WeightsChoices ==
    { DefaultWeights,
      [w_macro |-> 5000, w_constraint |-> 5000, w_trust |-> 5000,
       w_control_points |-> 5000, w_adaptation |-> 5000, w_georeg |-> 5000,
       w_capital_alloc |-> 5000, risk_weight |-> 15000,
       score_min |-> -50 * S, score_max |-> 50 * S],
      [DefaultWeights EXCEPT !.w_macro = -3000, !.risk_weight = 0,
                             !.score_min = -10 * S, !.score_max = 5 * S],
      [DefaultWeights EXCEPT !.score_min = 50 * S, !.score_max = -50 * S] }

Companies == {"Alpha", "Beta", "Ghost"}

Horizons == {"0-2y", "2-5y"}

AsOfs == {None, "2026-02-16"}

\* The regime_mixture argument: None, or a RegimeMixture.
NoMixture == [given |-> FALSE]

Mixture(weights) == [given |-> TRUE, weights |-> weights]

MixtureArgs ==
    { NoMixture,
      Mixture([r \in {} |-> 0]),
      Mixture([r \in {"regulatory_clampdown", "capital_concentration",
                      "hyper_competition", "trust_collapse"} |->
                 CASE r = "regulatory_clampdown" -> 5000
                   [] r = "capital_concentration" -> 10000
                   [] r = "hyper_competition" -> 5000
                   [] r = "trust_collapse" -> -5000]) }

-----------------------------------------------------------------------------
(* The state                                                               *)

VARIABLES
    data,           \* MagicDataProvider.data: company -> metric id -> entry
    w,              \* MegaRubricScorer.w: the RubricWeights
    pc,             \* where the scorer is: "idle", "evaluating", "returned", "raised"
    call,           \* the arguments of the score_company call in progress
    mix,            \* the local mix: the normalized mixture's weights
    group_outputs,  \* the FactorOutputs computed so far, by group name
    log,            \* the provider calls the scorer has made in this call
    result,         \* what the call returned or raised
    snap,           \* an earlier finished call, kept to compare later calls with
    norm,           \* a RegimeMixture and the results of normalized() applied to it
    risk,           \* a group_outputs mapping and the result of _aggregate_risk on it
    probe           \* the calls made on the provider and on util directly, with what they returned

vars == <<data, w, pc, call, mix, group_outputs, log, result, snap, norm, risk, probe>>

scorer == <<data, w, pc, call, mix, group_outputs, log, result, snap>>

NoCall == [company |-> None, horizon |-> None, as_of |-> None, regime_mixture |-> NoMixture]

NoResult == [kind |-> "none"]

NoOutputs == [g \in {} |-> 0]

NoNorm == [input |-> [r \in {} |-> 0], runs |-> <<>>]

NoRisk == [outs |-> <<>>, done |-> FALSE, index |-> 0]

NoProbe == [kind |-> "none"]

\* The scorer has been constructed and no call has been made.
Fresh ==
    /\ pc = "idle"
    /\ call = NoCall
    /\ mix = [r \in {} |-> 0]
    /\ group_outputs = NoOutputs
    /\ log = <<>>
    /\ result = NoResult
    /\ snap = NoResult

Init ==
    /\ data \in Datasets
    /\ w \in WeightsChoices
    /\ Fresh
    /\ norm = NoNorm
    /\ risk = NoRisk
    /\ probe = NoProbe

\* ScoreQuery leaving score_range to the default of get_score, (-1, 1).
ScoreQueryDefaultRange(c, metric_id) ==
    [op |-> "get_score", metric_id |-> metric_id, company |-> c.company,
     horizon |-> c.horizon, as_of |-> c.as_of, score_range |-> <<-S, S>>]

\* One get_score call of the scorer, as the provider sees it.
ScoreQuery(c, metric_id) ==
    [op |-> "get_score", metric_id |-> metric_id, company |-> c.company,
     horizon |-> c.horizon, as_of |-> c.as_of, score_range |-> <<0, S>>]

\* The provider call line 36 makes when no mixture is passed.
MixtureQuery(c) == [op |-> "get_regime_mixture", horizon |-> c.horizon, as_of |-> c.as_of]

\* ResolveMixture with Python's "or" falling through on an empty mixture.
ResolveMixtureFalsy(c) ==
    IF c.regime_mixture.given /\ DOMAIN c.regime_mixture.weights # {}
    THEN [mix |-> normalized(c.regime_mixture.weights), queries |-> <<>>]
    ELSE [mix |-> normalized(get_regime_mixture), queries |-> <<MixtureQuery(c)>>]

\* Line 36: (regime_mixture or self.p.get_regime_mixture(...)).normalized().
\* A RegimeMixture object is truthy whatever its weights, so the provider is
\* asked only when the argument is None.
ResolveMixture(c) ==
    IF c.regime_mixture.given
    THEN [mix |-> normalized(c.regime_mixture.weights), queries |-> <<>>]
    ELSE [mix |-> normalized(get_regime_mixture), queries |-> <<MixtureQuery(c)>>]

\* What the caller that kept an earlier outcome notes when it makes the call
\* c: whether it has repeated the kept call, and whether it has made another.
Noted(c) ==
    IF snap.kind = "snap"
    THEN [snap EXCEPT !.again = @ \/ c = snap.call, !.other = @ \/ c # snap.call]
    ELSE snap

\* Call with the group outputs of the previous call left in place, as a
\* cache of FactorOutputs that is never invalidated would leave them.
CallKeepingOutputs(company, horizon, as_of, regime_mixture) ==
    /\ pc \in {"idle", "returned", "raised"}
    /\ call' = [company |-> company, horizon |-> horizon, as_of |-> as_of,
                regime_mixture |-> regime_mixture]
    /\ mix' = ResolveMixture(call').mix
    /\ log' = ResolveMixture(call').queries
    /\ result' = NoResult
    /\ pc' = "evaluating"
    /\ snap' = Noted(call')
    /\ UNCHANGED <<data, w, group_outputs, norm, risk, probe>>

\* score_company is called: line 36 resolves and normalizes the mixture.
Call(company, horizon, as_of, regime_mixture) ==
    /\ pc \in {"idle", "returned", "raised"}
    /\ call' = [company |-> company, horizon |-> horizon, as_of |-> as_of,
                regime_mixture |-> regime_mixture]
    /\ mix' = ResolveMixture(call').mix
    /\ log' = ResolveMixture(call').queries
    /\ group_outputs' = NoOutputs
    /\ result' = NoResult
    /\ pc' = "evaluating"
    /\ snap' = Noted(call')
    /\ UNCHANGED <<data, w, norm, risk, probe>>

\* Evaluate with the capital allocation evaluator adding the macro group's
\* additive to its own when the macro group has been evaluated before it.
EvaluateReadingOthers(g) ==
    /\ pc = "evaluating"
    /\ g \notin DOMAIN group_outputs
    /\ LET r == RunEvaluator(g, data, call.company, mix)
       IN  /\ log' = log \o [i \in 1..Len(r.queries) |-> ScoreQuery(call, r.queries[i])]
           /\ IF r.ok
              THEN /\ group_outputs' =
                        (g :> IF g = "capital_alloc" /\ "macro" \in DOMAIN group_outputs
                              THEN [r.out EXCEPT !.additive =
                                      clamp(@ + group_outputs["macro"].additive, -S, S)]
                              ELSE r.out) @@ group_outputs
                   /\ UNCHANGED <<pc, result>>
              ELSE /\ pc' = "raised"
                   /\ result' = [kind |-> "error", error |-> r.error]
                   /\ UNCHANGED group_outputs
    /\ UNCHANGED <<data, w, call, mix, snap, norm, risk, probe>>

\* One evaluator runs: it stores its FactorOutput, or the exception it
\* raises ends the call.
Evaluate(g) ==
    /\ pc = "evaluating"
    /\ g \notin DOMAIN group_outputs
    /\ LET r == RunEvaluator(g, data, call.company, mix)
       IN  /\ log' = log \o [i \in 1..Len(r.queries) |-> ScoreQuery(call, r.queries[i])]
           /\ IF r.ok
              THEN /\ group_outputs' = (g :> r.out) @@ group_outputs
                   /\ UNCHANGED <<pc, result>>
              ELSE /\ pc' = "raised"
                   /\ result' = [kind |-> "error", error |-> r.error]
                   /\ UNCHANGED group_outputs
    /\ UNCHANGED <<data, w, call, mix, snap, norm, risk, probe>>

\* Lines 39-45: the evaluators run in the order of the source.
EvaluateNext ==
    \E i \in 1..Len(GroupOrder) :
        /\ \A j \in 1..(i - 1) : GroupOrder[j] \in DOMAIN group_outputs
        /\ Evaluate(GroupOrder[i])

\* Lines 47-105: the aggregation and the return of the ScoreBreakdown.
Aggregate ==
    /\ pc = "evaluating"
    /\ DOMAIN group_outputs = Groups
    /\ result' = [kind |-> "breakdown", value |-> Breakdown(w, call, mix, group_outputs)]
    /\ pc' = "returned"
    /\ UNCHANGED <<data, w, call, mix, group_outputs, log, snap, norm, risk, probe>>

AnyCall ==
    \E company \in Companies, horizon \in Horizons, as_of \in AsOfs,
       regime_mixture \in MixtureArgs :
        Call(company, horizon, as_of, regime_mixture)

Next == AnyCall \/ EvaluateNext \/ Aggregate

Spec == Init /\ [][Next]_vars

-----------------------------------------------------------------------------
(* Properties of score_company, checked under Spec                         *)

\* C1: every returned final_score lies in [score_min, score_max] of the
\* RubricWeights in force, whatever the signals and the mixture.
C1_FinalWithinBounds ==
    result.kind = "breakdown" =>
        /\ w.score_min <= result.value.final_score
        /\ result.value.final_score <= w.score_max

\* The weight RubricWeights gives to a group.
C2_Weight(rw, g) ==
    CASE g = "macro" -> rw.w_macro
      [] g = "constraint" -> rw.w_constraint
      [] g = "trust" -> rw.w_trust
      [] g = "control_points" -> rw.w_control_points
      [] g = "adaptation" -> rw.w_adaptation
      [] g = "georeg" -> rw.w_georeg
      [] g = "capital_alloc" -> rw.w_capital_alloc

\* The sum over the first n groups of group weight * group additive.
RECURSIVE C2_WeightedSum(_, _, _)
C2_WeightedSum(rw, go, n) ==
    IF n = 0 THEN 0
    ELSE C2_WeightedSum(rw, go, n - 1)
         + Mul(C2_Weight(rw, GroupOrder[n]), go[GroupOrder[n]].additive)

\* Every value of the dicts go[g][field], group after group.
RECURSIVE C2_AllValues(_, _, _)
C2_AllValues(go, field, n) ==
    IF n = 0 THEN <<>>
    ELSE LET dict == go[GroupOrder[n]][field]
         IN  C2_AllValues(go, field, n - 1) \o [i \in 1..Len(dict) |-> dict[i][2]]

\* The product of the first n values, each clamped to [0, hi].
RECURSIVE C2_Product(_, _, _)
C2_Product(vals, n, hi) ==
    IF n = 0 THEN S
    ELSE Mul(C2_Product(vals, n - 1, hi), clamp(vals[n], 0, hi))

\* C2: final_score = clamp(100 clamp(B G M D, -1, 1), score_min, score_max)
\* with B the clamped weighted sum of the additives, G the product of the
\* clamped gates, M the product of the clamped multipliers and D the risk
\* discount; base_additive, gate_multiplier, multiplier_product and
\* risk_index are the B, G, M and risk index of that formula.
C2_FinalFormula ==
    result.kind = "breakdown" =>
        LET b == result.value
            go == b.group_outputs
            gates == C2_AllValues(go, "gates", Len(GroupOrder))
            mults == C2_AllValues(go, "multipliers", Len(GroupOrder))
            B == clamp(C2_WeightedSum(w, go, Len(GroupOrder)), -S, S)
            G == C2_Product(gates, Len(gates), S)
            M == C2_Product(mults, Len(mults), 12500)
            D == clamp(S - Mul(w.risk_weight, Pow(b.risk_index, 12000)), 0, S)
        IN  /\ DOMAIN go = Groups
            /\ b.base_additive = B
            /\ b.gate_multiplier = G
            /\ b.multiplier_product = M
            /\ b.risk_index = _aggregate_risk(Values(go))
            /\ b.final_score =
                 clamp(100 * clamp(Mul(Mul(Mul(B, G), M), D), -S, S),
                       w.score_min, w.score_max)

\* A call returned a score that no clamp decided: gates partly open, a
\* positive risk index, a final score strictly inside the bounds.
C2_Witness ==
    /\ pc = "returned"
    /\ result.kind = "breakdown"
    /\ result.value.gate_multiplier > 0
    /\ result.value.gate_multiplier < S
    /\ result.value.multiplier_product # S
    /\ result.value.risk_index > 0
    /\ result.value.final_score # 0
    /\ result.value.final_score > w.score_min
    /\ result.value.final_score < w.score_max

\* The query asks for a company or a metric the dataset does not hold.
QueryAbsent(q) ==
    /\ q.op = "get_score"
    /\ \/ q.company \notin DOMAIN data
       \/ q.metric_id \notin DOMAIN data[q.company]

\* The ValueError get_value raises for such a query.
QueryError(q) ==
    IF q.company \notin DOMAIN data
    THEN <<"Company not found in data", q.company>>
    ELSE <<"Metric not found for company", q.company, q.metric_id>>

\* C3: a query for an absent company or metric ends the call with that
\* error: it is the last query of the call, no ScoreBreakdown is returned,
\* and a call that raises anything else than the OverflowError of an
\* evaluator raises for such a query.
C3_MissingSignalAborts ==
    /\ \A i \in 1..Len(log) :
           QueryAbsent(log[i]) =>
               /\ i = Len(log)
               /\ pc = "raised"
               /\ result.kind = "error"
               /\ result.error = QueryError(log[i])
    /\ (pc = "raised" /\ result.error # MathRangeError) =>
           (log # <<>> /\ QueryAbsent(log[Len(log)]))
    /\ pc = "returned" => result.kind = "breakdown"

\* A call was aborted by a missing metric after several successful queries.
C3_Witness ==
    /\ pc = "raised"
    /\ call.company \in DOMAIN data
    /\ Len(log) > 3
    /\ QueryAbsent(log[Len(log)])
    /\ result.kind = "error"
    /\ result.error = QueryError(log[Len(log)])
    /\ DOMAIN group_outputs # {}

\* C10: with an explicit RegimeMixture (even an empty one) the provider's
\* get_regime_mixture is never called and the mixture used is the argument
\* normalized; with none it is called exactly once, before any signal query,
\* and its normalized result is used.
C10_MixtureResolution ==
    pc # "idle" =>
        LET asked == {i \in 1..Len(log) : log[i].op = "get_regime_mixture"}
        IN  /\ call.regime_mixture.given =>
                /\ asked = {}
                /\ mix = normalized(call.regime_mixture.weights)
            /\ ~call.regime_mixture.given =>
                /\ asked = {1}
                /\ log[1] = MixtureQuery(call)
                /\ mix = normalized(get_regime_mixture)
            /\ result.kind = "breakdown" => result.value.regime_mixture = mix

\* A call with an explicit empty mixture returned without asking the provider.
C10_Witness ==
    /\ pc = "returned"
    /\ call.regime_mixture.given
    /\ DOMAIN call.regime_mixture.weights = {}
    /\ \A i \in 1..Len(log) : log[i].op = "get_score"
    /\ result.value.regime_mixture = DefaultMixture


-----------------------------------------------------------------------------
(* RegimeMixture.normalized on its own, checked under SpecNorm             *)

\* The largest number of regimes a mixture under test names.
MaxNormKeys == 4

\* The regimes the mixtures under test name: two of the default mixture's
\* four and three outside it.
NormRegimes ==
    {"power_constrained_boom", "trust_collapse", "regulatory_clampdown",
     "capital_concentration", "geopolitical_bifurcation"}

\* The weights the mixtures under test carry: negative, zero and positive.
NormWeightVals == {-5000, 0, 1000, 3000, 4000}

\* RegimeMixture(weights) for every key set and weights within the bounds.
NormInputs ==
    UNION {[ks -> NormWeightVals] :
             ks \in {k \in SUBSET NormRegimes : Cardinality(k) <= MaxNormKeys}}

InitNorm ==
    /\ data = Dataset(1)
    /\ w = DefaultWeights
    /\ Fresh
    /\ norm \in [input : NormInputs, runs : {<<>>}]
    /\ risk = NoRisk
    /\ probe = NoProbe

\* m.normalized()
Normalize ==
    /\ norm.runs = <<>>
    /\ norm' = [norm EXCEPT !.runs = <<NormalizedRun(norm.input, 0)>>]
    /\ UNCHANGED <<scorer, risk, probe>>

\* m.normalized().normalized()
NormalizeAgain ==
    /\ Len(norm.runs) = 1
    /\ norm' = [norm EXCEPT !.runs = Append(@, NormalizedRun(norm.runs[1].weights, 0))]
    /\ UNCHANGED <<scorer, risk, probe>>

NextNorm == Normalize \/ NormalizeAgain

SpecNorm == InitNorm /\ [][NextNorm]_vars

\* The sum of the weights of the regimes ks.
RECURSIVE C7_Sum(_, _)
C7_Sum(weights, ks) ==
    IF ks = {} THEN 0
    ELSE LET k == CHOOSE x \in ks : TRUE
         IN  weights[k] + C7_Sum(weights, ks \ {k})

\* Some weight of the mixture is positive: its clamped sum is positive.
C7_PositiveSum(weights) == \E k \in DOMAIN weights : weights[k] > 0

\* C7 as stated: with a positive clamped sum, normalized() keeps the key
\* set, returns only weights >= 0 (0 for a negative input weight), and the
\* returned weights sum to exactly 1.
C7_SumsToExactlyOne ==
    (norm.runs # <<>> /\ C7_PositiveSum(norm.input)) =>
        LET out == norm.runs[1].weights
        IN  /\ DOMAIN out = DOMAIN norm.input
            /\ \A k \in DOMAIN out : out[k] >= 0
            /\ \A k \in DOMAIN out : norm.input[k] <= 0 => out[k] = 0
            /\ C7_Sum(out, DOMAIN out) = S

\* C7, amended: with a positive clamped sum, normalized() keeps the key
\* set, returns only weights >= 0 (0 for a negative input weight), and the
\* returned weights sum to 1 up to the rounding of the divisions (half a
\* unit of the last place for each weight).
C7_SumsToOneWithinRounding ==
    (norm.runs # <<>> /\ C7_PositiveSum(norm.input)) =>
        LET out == norm.runs[1].weights
            sum == C7_Sum(out, DOMAIN out)
        IN  /\ DOMAIN out = DOMAIN norm.input
            /\ \A k \in DOMAIN out : out[k] >= 0
            /\ \A k \in DOMAIN out : norm.input[k] <= 0 => out[k] = 0
            /\ 2 * (sum - S) <= Cardinality(DOMAIN out)
            /\ 2 * (S - sum) <= Cardinality(DOMAIN out)

\* A mixture with a negative, a zero and a positive weight was normalized.
C7_Witness ==
    /\ norm.runs # <<>>
    /\ norm.runs[1].depth = 0
    /\ DOMAIN norm.runs[1].weights = DOMAIN norm.input
    /\ \E k \in DOMAIN norm.input : norm.input[k] < 0 /\ norm.runs[1].weights[k] = 0
    /\ \E k \in DOMAIN norm.input : norm.input[k] = 0
    /\ \E k \in DOMAIN norm.input : norm.input[k] > 0 /\ norm.runs[1].weights[k] > 0

\* C8: when no weight of the mixture is positive (empty, all zero, or all
\* non-positive), normalized() returns the default mixture 0.35 / 0.35 /
\* 0.15 / 0.15 over its own four regimes, whatever keys the input had, after
\* exactly one recursive step.
C8_DefaultOnNonPositiveSum ==
    (norm.runs # <<>> /\ \A k \in DOMAIN norm.input : norm.input[k] <= 0) =>
        /\ norm.runs[1].weights =
             [r \in {"power_constrained_boom", "security_arms_race",
                     "trust_collapse", "hyper_competition"} |->
                CASE r = "power_constrained_boom" -> 3500
                  [] r = "security_arms_race" -> 3500
                  [] r = "trust_collapse" -> 1500
                  [] r = "hyper_competition" -> 1500]
        /\ norm.runs[1].depth = 1

\* A mixture naming regimes outside the default, none with a positive
\* weight and one with a negative weight, was normalized.
C8_Witness ==
    /\ norm.runs # <<>>
    /\ \A k \in DOMAIN norm.input : norm.input[k] <= 0
    /\ \E k \in DOMAIN norm.input : norm.input[k] < 0
    /\ "capital_concentration" \in DOMAIN norm.input
    /\ "capital_concentration" \notin DOMAIN norm.runs[1].weights

\* C9 as stated: normalizing a normalized mixture returns the same keys and
\* exactly the same weights.
C9_Idempotent ==
    Len(norm.runs) = 2 => norm.runs[2].weights = norm.runs[1].weights

\* C9, amended: once the weights of a normalized mixture sum to exactly 1,
\* normalizing it again returns the same keys and exactly the same weights,
\* without falling back to the default mixture.
C9_IdempotentOnceSumIsOne ==
    (Len(norm.runs) = 2
       /\ C7_Sum(norm.runs[1].weights, DOMAIN norm.runs[1].weights) = S) =>
        /\ norm.runs[2].weights = norm.runs[1].weights
        /\ norm.runs[2].depth = 0

\* A mixture with unequal positive weights that did not sum to 1 was
\* normalized to weights that sum to exactly 1, one of them below 0.1, and
\* then normalized again.
C9_Witness ==
    /\ Len(norm.runs) = 2
    /\ norm.runs[1].depth = 0
    /\ norm.runs[1].weights # norm.input
    /\ C7_Sum(norm.runs[1].weights, DOMAIN norm.runs[1].weights) = S
    /\ \E j, k \in DOMAIN norm.input :
          /\ norm.input[j] > 0
          /\ norm.input[k] > norm.input[j]
          /\ norm.runs[1].weights[j] < 1000
          /\ norm.runs[2].weights[k] > norm.runs[2].weights[j]

-----------------------------------------------------------------------------
(* _aggregate_risk on its own, checked under SpecRisk                      *)

\* The largest number of groups in the group_outputs under test.
MaxRiskGroups == 2

\* The channel names the groups under test emit: two of the table, one of
\* them emitted by two evaluators in the source, and one outside the table.
RiskChannelNames == <<"execution", "security_incident", "liquidity">>

\* The channel values under test: below 0, inside [0, 1] and above 1.
RiskVals == {-5000, 4000, 15000}

\* The risk dicts under test: any subset of the names, each with any value.
RiskDicts ==
    {<<>>} \cup
    UNION {{[i \in 1..Len(names) |-> <<names[i], f[i]>>] : f \in [1..Len(names) -> RiskVals]} :
             names \in {<<RiskChannelNames[1]>>, <<RiskChannelNames[2]>>,
                        <<RiskChannelNames[3]>>,
                        <<RiskChannelNames[1], RiskChannelNames[2]>>,
                        <<RiskChannelNames[1], RiskChannelNames[3]>>,
                        <<RiskChannelNames[2], RiskChannelNames[3]>>,
                        <<RiskChannelNames[1], RiskChannelNames[2], RiskChannelNames[3]>>}}

\* A FactorOutput of which only the risk dict matters to _aggregate_risk.
RiskOnly(r) == FactorOutput(0, EmptyDict, EmptyDict, r, EmptyDict)

\* The group_outputs.values() under test: up to MaxRiskGroups outputs.
RiskOutputs ==
    UNION {[1..n -> {RiskOnly(r) : r \in RiskDicts}] : n \in 0..MaxRiskGroups}

InitRisk ==
    /\ data = Dataset(1)
    /\ w = DefaultWeights
    /\ Fresh
    /\ norm = NoNorm
    /\ risk \in [outs : RiskOutputs, done : {FALSE}, index : {0}]
    /\ probe = NoProbe

\* self._aggregate_risk(group_outputs)
AggregateRisk ==
    /\ ~risk.done
    /\ risk' = [risk EXCEPT !.done = TRUE, !.index = _aggregate_risk(risk.outs)]
    /\ UNCHANGED <<scorer, norm, probe>>

SpecRisk == InitRisk /\ [][AggregateRisk]_vars

\* The weight the fixed table gives a channel name.
C4_Table ==
    [macro_tail |-> 1800, power_constraint |-> 1800, security_incident |-> 2200,
     regulatory |-> 1600, geopolitical |-> 1600, execution |-> 1000]

\* The emissions <<group, position>> of channels whose name is in the table.
C4_Emitted(outs) ==
    UNION {{<<i, j>> : j \in {n \in 1..Len(outs[i].risk) :
                                outs[i].risk[n][1] \in DOMAIN C4_Table}} :
             i \in 1..Len(outs)}

\* The sums of weight * clamp(value, 0, 1) and of weight over emissions es.
RECURSIVE C4_Sums(_, _)
C4_Sums(outs, es) ==
    IF es = {} THEN [num |-> 0, den |-> 0]
    ELSE LET e == CHOOSE x \in es : TRUE
             ch == outs[e[1]].risk[e[2]][1]
             v == outs[e[1]].risk[e[2]][2]
             rest == C4_Sums(outs, es \ {e})
         IN  [num |-> rest.num + Mul(C4_Table[ch], Max(0, Min(S, v))),
              den |-> rest.den + C4_Table[ch]]

\* C4: _aggregate_risk returns clamp(sum(weight * clamp(value, 0, 1)) /
\* sum(weight), 0, 1) over every emission of a channel named in the table, an
\* emission counting once per group that makes it; emissions of other names
\* change nothing; with no emission named in the table it returns 0.25.
C4_AggregateRisk ==
    risk.done =>
        LET es == C4_Emitted(risk.outs)
            t == C4_Sums(risk.outs, es)
        IN  IF es = {}
            THEN risk.index = 2500
            ELSE risk.index = Max(0, Min(S, Div(t.num, t.den)))

\* Two groups emitted execution, one of them with security_incident and a
\* channel outside the table, and the index is the one counting execution's
\* weight twice: (0.10 * 1 + 0.10 * 0.4 + 0.22 * 0) / 0.42.
C4_Witness ==
    /\ risk.done
    /\ risk.outs = << RiskOnly(<< <<"execution", 15000>> >>),
                      RiskOnly(<< <<"execution", 4000>>, <<"security_incident", -5000>>,
                                  <<"liquidity", 15000>> >>) >>
    /\ risk.index = 3333


-----------------------------------------------------------------------------
(* Repeated calls on one scorer, checked under SpecRepeat                  *)

\* The number of datasets the scorer of the repeated calls may be built on.
NumRepeatDatasets == 2

InitRepeat ==
    /\ data \in {Dataset(k) : k \in 1..NumRepeatDatasets}
    /\ w \in WeightsChoices
    /\ Fresh
    /\ norm = NoNorm
    /\ risk = NoRisk
    /\ probe = NoProbe

\* The caller keeps the outcome of a finished call, with its arguments.
Remember ==
    /\ pc \in {"returned", "raised"}
    /\ snap = NoResult
    /\ snap' = [kind |-> "snap", call |-> call, result |-> result,
                again |-> FALSE, other |-> FALSE]
    /\ UNCHANGED <<data, w, pc, call, mix, group_outputs, log, result, norm, risk, probe>>

NextRepeat == AnyCall \/ EvaluateNext \/ Aggregate \/ Remember

SpecRepeat == InitRepeat /\ [][NextRepeat]_vars

\* C5: a call that finishes with the arguments of an earlier call on the
\* same scorer, any number of other calls in between, finishes with the same
\* outcome: a ScoreBreakdown equal in every field, or the same error.
C5_SameCallSameResult ==
    (pc \in {"returned", "raised"} /\ snap.kind = "snap" /\ snap.call = call) =>
        result = snap.result

\* A call returned a ScoreBreakdown, a call with another company and another
\* mixture has run since, and the first call has been made again and returned.
C5_Witness ==
    /\ pc = "returned"
    /\ snap.kind = "snap"
    /\ snap.call = call
    /\ snap.result.kind = "breakdown"
    /\ result = snap.result
    /\ result.value.final_score # 0
    /\ snap.again
    /\ snap.other

-----------------------------------------------------------------------------
(* The evaluators in any order, checked under SpecAnyOrder                 *)

\* Lines 39-45 with the order of the evaluators left open: any group that
\* has not been evaluated in this call may be evaluated next.
EvaluateAny == \E g \in Groups : Evaluate(g)

\* The number of datasets the scorer of the reordered calls may be built on.
NumAnyOrderDatasets == 1

\* A scorer with the default weights on a dataset of mixed signal values.
InitAnyOrder ==
    /\ data \in {Dataset(k + 2) : k \in 1..NumAnyOrderDatasets}
    /\ w = DefaultWeights
    /\ Fresh
    /\ norm = NoNorm
    /\ risk = NoRisk
    /\ probe = NoProbe

\* score_company(company, TimeHorizon.MID, regime_mixture=...): the provider
\* ignores the horizon and the date, so one value of each is enough here.
CallAnyOrder ==
    \E company \in Companies, regime_mixture \in MixtureArgs :
        Call(company, "2-5y", None, regime_mixture)

NextAnyOrder == CallAnyOrder \/ EvaluateAny \/ Aggregate

SpecAnyOrder == InitAnyOrder /\ [][NextAnyOrder]_vars

\* The outcome of running the evaluators from the n-th on in source order.
RECURSIVE SequentialOutputs(_, _, _, _, _)
SequentialOutputs(d, company, mx, go, n) ==
    IF n > Len(GroupOrder) THEN [ok |-> TRUE, outputs |-> go]
    ELSE LET r == RunEvaluator(GroupOrder[n], d, company, mx)
         IN  IF r.ok
             THEN SequentialOutputs(d, company, mx, (GroupOrder[n] :> r.out) @@ go, n + 1)
             ELSE [ok |-> FALSE, error |-> r.error]

\* C6: whatever order the seven evaluators ran in, the call returns the
\* group_outputs, base_additive, gate_multiplier, multiplier_product,
\* risk_index and final_score of the sequential order, and it raises only
\* when the sequential order raises.
C6_OrderIndependent ==
    LET seq == SequentialOutputs(data, call.company, mix, NoOutputs, 1)
    IN  /\ pc = "returned" =>
              /\ seq.ok
              /\ result.value = Breakdown(w, call, mix, seq.outputs)
        /\ pc = "raised" => ~seq.ok

\* A call returned a score after its evaluators ran in another order than
\* the source's: capital allocation asked the first signal and macro the last.
C6_Witness ==
    /\ pc = "returned"
    /\ result.kind = "breakdown"
    /\ result.value.final_score # 0
    /\ Len(log) > 1
    /\ log[1].op = "get_score"
    /\ log[1].metric_id \in {m \in MetricIds : \E i \in 1..Len(GroupMetrics("capital_alloc")) :
                                                   GroupMetrics("capital_alloc")[i] = m}
    /\ log[Len(log)].metric_id \in {m \in MetricIds : \E i \in 1..Len(GroupMetrics("macro")) :
                                                          GroupMetrics("macro")[i] = m}

-----------------------------------------------------------------------------
(* The configuration a call runs with, checked under Spec                  *)

\* RubricWeights a scorer can compute with: the hard caps are ordered.
C11_WellFormed(rw) == rw.score_min <= rw.score_max

\* C11: malformed RubricWeights are rejected at construction, so no
\* score_company call ever starts computing with a malformed configuration.
C11_NoCallWithMalformedWeights ==
    pc # "idle" => C11_WellFormed(w)

-----------------------------------------------------------------------------
(* The provider called directly, checked under SpecProvider                *)

\* The score_range arguments under test: the one the core requests, the
\* one get_score rescales for, and another one.
ScoreRanges == {<<0, S>>, <<-S, S>>, <<0, 100 * S>>}

\* No provider call has been made yet.
NoQuery == [op |-> "none"]

\* The provider has loaded its file; probe keeps what was loaded.
InitProvider ==
    /\ data \in Datasets
    /\ w = DefaultWeights
    /\ Fresh
    /\ norm = NoNorm
    /\ risk = NoRisk
    /\ probe = [kind |-> "provider", loaded |-> data, last |-> NoQuery,
                after_rescaling |-> FALSE]

\* The call before this one, on the same company and metric, was a
\* get_score that rescaled the value it returned.
AfterRescaling(metric_id, company) ==
    /\ probe.last.op = "get_score"
    /\ probe.last.score_range = <<-S, S>>
    /\ probe.last.signal.ok
    /\ probe.last.metric_id = metric_id
    /\ probe.last.company = company

\* provider.get_value(metric_id, company=company, horizon=...)
GetValue(metric_id, company) ==
    /\ probe.kind = "provider"
    /\ probe' = [probe EXCEPT
                    !.last = [op |-> "get_value", metric_id |-> metric_id,
                              company |-> company, score_range |-> <<>>,
                              signal |-> get_value(data, metric_id, company)],
                    !.after_rescaling = AfterRescaling(metric_id, company)]
    /\ UNCHANGED <<data, w, pc, call, mix, group_outputs, log, result, snap, norm, risk>>

\* provider.get_score(metric_id, company=company, horizon=..., score_range=...)
GetScore(metric_id, company, score_range) ==
    /\ probe.kind = "provider"
    /\ probe' = [probe EXCEPT
                    !.last = [op |-> "get_score", metric_id |-> metric_id,
                              company |-> company, score_range |-> score_range,
                              signal |-> get_score(data, metric_id, company, score_range)],
                    !.after_rescaling = AfterRescaling(metric_id, company)]
    /\ data' = DataAfterScore(data, metric_id, company, score_range)
    /\ UNCHANGED <<w, pc, call, mix, group_outputs, log, result, snap, norm, risk>>

AnyGetValue == \E metric_id \in MetricIds, company \in Companies : GetValue(metric_id, company)

AnyGetScore ==
    \E metric_id \in MetricIds, company \in Companies, score_range \in ScoreRanges :
        GetScore(metric_id, company, score_range)

NextProvider == AnyGetValue \/ AnyGetScore

SpecProvider == InitProvider /\ [][NextProvider]_vars

\* The value stored for a metric of a company, 0.0 when the entry has none.
C12_Stored(d, company, metric_id) ==
    IF "value" \in DOMAIN d[company][metric_id] THEN d[company][metric_id].value ELSE 0

\* C12: for a known company and metric with stored value v, get_score
\* returns 2v - 1 when the requested range is (-1, 1) and v for every other
\* range, with the other Signal fields those get_value returns.
C12_ScoreRescaling ==
    (/\ probe.kind = "provider"
     /\ probe.last.op = "get_score"
     /\ probe.last.company \in DOMAIN probe.loaded
     /\ probe.last.metric_id \in DOMAIN probe.loaded[probe.last.company]) =>
        LET q == probe.last
            v == C12_Stored(probe.loaded, q.company, q.metric_id)
            plain == get_value(probe.loaded, q.metric_id, q.company)
        IN  /\ q.signal.ok
            /\ q.signal.value = (IF q.score_range = <<-S, S>> THEN 2 * v - S ELSE v)
            /\ q.signal.scale = plain.scale
            /\ q.signal.confidence = plain.confidence
            /\ q.signal.freshness_days = plain.freshness_days

\* get_score was asked for a range other than (0, 1) and (-1, 1) and
\* returned a stored value from outside [0, 1] as it is.
C12_Witness ==
    /\ probe.kind = "provider"
    /\ probe.last.op = "get_score"
    /\ probe.last.score_range = <<0, 100 * S>>
    /\ probe.last.signal.ok
    /\ probe.last.signal.value > S
    /\ probe.last.signal.value = probe.loaded[probe.last.company][probe.last.metric_id].value

\* C19: get_value and get_score leave the loaded dataset as it was, and a
\* get_value made after any sequence of calls, rescaling ones included,
\* returns the value that was loaded.
C19_DatasetUnchanged ==
    probe.kind = "provider" =>
        /\ data = probe.loaded
        /\ (probe.last.op = "get_value" /\ probe.last.signal.ok) =>
               probe.last.signal.value =
                   C12_Stored(probe.loaded, probe.last.company, probe.last.metric_id)

\* get_score rescaled a stored value for the range (-1, 1), and the
\* get_value made afterwards for the same company and metric returned the
\* value that was loaded.
C19_Witness ==
    /\ probe.kind = "provider"
    /\ probe.last.op = "get_value"
    /\ probe.last.signal.ok
    /\ probe.after_rescaling
    /\ probe.last.signal.value # 2 * probe.last.signal.value - S
    /\ probe.last.signal.value = probe.loaded[probe.last.company][probe.last.metric_id].value

-----------------------------------------------------------------------------
(* The ranges of the evaluators' outputs, checked under Spec               *)

\* Every value of a gates, multipliers or risk dict lies in [lo, hi].
C13_AllWithin(dict, lo, hi) ==
    \A i \in 1..Len(dict) : lo <= dict[i][2] /\ dict[i][2] <= hi

\* C13: every FactorOutput an evaluator produced in a call has its additive
\* in [-1, 1], its gates in [0, 1], its multipliers in [0, 1.25] with
\* mna_multiplier in [0, 1.20], and its risk channels in [0, 1], whatever
\* the signal values and the mixture.
C13_OutputsInRange ==
    \A g \in DOMAIN group_outputs :
        LET out == group_outputs[g]
        IN  /\ -S <= out.additive /\ out.additive <= S
            /\ C13_AllWithin(out.gates, 0, S)
            /\ C13_AllWithin(out.multipliers, 0, 12500)
            /\ \A i \in 1..Len(out.multipliers) :
                  out.multipliers[i][1] = "mna_multiplier" => out.multipliers[i][2] <= 12000
            /\ C13_AllWithin(out.risk, 0, S)

\* All seven evaluators ran on signals above 1, and the clamp decided the
\* macro_tail channel: fragility * tightness was above 1.
C13_Witness ==
    /\ DOMAIN group_outputs = Groups
    /\ \A m \in MetricIds : data[call.company][m].value > S
    /\ data[call.company]["macro.company_sensitivity"].value
         * data[call.company]["macro.tightness_index"].value > S * S
    /\ group_outputs["macro"].risk = << <<"macro_tail", S>> >>

-----------------------------------------------------------------------------
(* util.gate called directly, checked under SpecGate                       *)

\* The thresholds, softnesses and values gate is called with: those of the
\* evaluators, the ends of [0, 1], values outside it, and small and
\* non-positive softnesses.
GateThresholds == {-1000, 0, 5000, 5500, 10000, 12000}

GateSoftnesses == {-500, 0, 10, 500, 800, 1000}

GateValues == {-5000, 0, 2500, 4000, 5000, 5400, 5500, 5600, 6000, 7500, 10000, 15000}

\* No call of gate has been made.
NoGateCall == [called |-> FALSE, value01 |-> 0, raised |-> FALSE, out |-> 0]

InitGate ==
    /\ data = Dataset(1)
    /\ w = DefaultWeights
    /\ Fresh
    /\ norm = NoNorm
    /\ risk = NoRisk
    /\ probe \in [kind : {"gate"}, threshold : GateThresholds, softness : GateSoftnesses,
                  prev : {NoGateCall}, last : {NoGateCall}]

\* gate(value01, threshold, softness), after an earlier call with the same
\* threshold and softness if there was one.
GateCall ==
    /\ probe.kind = "gate"
    /\ \E value01 \in GateValues :
         probe' = [probe EXCEPT
                     !.prev = probe.last,
                     !.last = IF gateRaises(value01, probe.threshold, probe.softness)
                              THEN [called |-> TRUE, value01 |-> value01,
                                    raised |-> TRUE, out |-> 0]
                              ELSE [called |-> TRUE, value01 |-> value01,
                                    raised |-> FALSE,
                                    out |-> gate(value01, probe.threshold, probe.softness)]]
    /\ UNCHANGED <<scorer, norm, risk>>

SpecGate == InitGate /\ [][GateCall]_vars

\* What is claimed of the calls that return: the result lies in [0, 1], is
\* the hard step at the threshold when softness <= 0, and is not below the
\* result of an earlier call with a smaller or equal value.
C14_ReturnedInRangeAndMonotone ==
    (probe.kind = "gate" /\ probe.last.called /\ ~probe.last.raised) =>
        /\ 0 <= probe.last.out /\ probe.last.out <= S
        /\ probe.softness <= 0 =>
              probe.last.out =
                 (IF Max(0, Min(S, probe.last.value01)) >= probe.threshold THEN S ELSE 0)
        /\ (probe.prev.called /\ ~probe.prev.raised
              /\ probe.prev.value01 <= probe.last.value01) =>
                 probe.prev.out <= probe.last.out

\* C14: for every threshold and softness, gate returns a value in [0, 1]
\* that is non-decreasing in its first argument, and for softness <= 0
\* exactly 1 if clamp(v, 0, 1) >= threshold and exactly 0 otherwise.
C14_GateMonotoneBounded ==
    (probe.kind = "gate" /\ probe.last.called) =>
        /\ ~probe.last.raised
        /\ C14_ReturnedInRangeAndMonotone

-----------------------------------------------------------------------------
(* util.to_minus1_plus1_from_0_1 on binary floating-point numbers, checked  *)
(* under SpecRoundTrip.  The fixed-point numbers above add and subtract     *)
(* exactly; a float subtraction rounds its result to the significand, and   *)
(* a round trip through 2x - 1 depends on exactly that.  Here the integer   *)
(* n stands for n / FOne and only integers with at most SignificandBits     *)
(* significant bits are floats.                                             *)

\* The number of bits of a float's significand (53 in a Python float).
SignificandBits == 4

\* The float 1.0: the grid is fine enough for floats far smaller than the
\* spacing of the floats next to 1.0.
FOne == Pow2(2 * SignificandBits)

\* The number of bits of the natural number n.
RECURSIVE Bits(_)
Bits(n) == IF n = 0 THEN 0 ELSE 1 + Bits(n \div 2)

\* The spacing of the floats around the natural number n.
Ulp(n) == Pow2(Bits(n) - SignificandBits)

\* The natural number n rounded to the nearest float, ties to even.
FRoundNat(n) ==
    LET u == Ulp(n)
        q == n \div u
        r == n % u
    IN  IF 2 * r < u THEN q * u
        ELSE IF 2 * r > u THEN (q + 1) * u
        ELSE IF q % 2 = 0 THEN q * u ELSE (q + 1) * u

\* The result of a float operation whose exact value is n.
FRound(n) == IF n < 0 THEN -FRoundNat(-n) ELSE FRoundNat(n)

\* to_minus1_plus1_from_0_1 without its clamp.
to_minus1_plus1_from_0_1_floatUnclamped(x01) == FRound(2 * x01 - FOne)

\* util.to_minus1_plus1_from_0_1 on floats: 2.0 * clamp(x01, 0.0, 1.0) is
\* exact, the subtraction of 1.0 rounds.
to_minus1_plus1_from_0_1_float(x01) == FRound(2 * clamp(x01, 0, FOne) - FOne)

\* The inverse (y + 1) / 2 on floats: the addition rounds, halving is exact.
FInverse(y) == FRound(y + FOne) \div 2

\* The floats under test: those of [-2, 2] that can be halved on the grid.
FloatInputs == {n \in (-2 * FOne)..(2 * FOne) : n % 2 = 0 /\ FRound(n) = n}

InitRoundTrip ==
    /\ data = Dataset(1)
    /\ w = DefaultWeights
    /\ Fresh
    /\ norm = NoNorm
    /\ risk = NoRisk
    /\ probe \in [kind : {"round_trip"}, x : FloatInputs, done : {FALSE},
                  image : {0}, back : {0}, preimage : {0}, forth : {0}]

\* y = to_minus1_plus1_from_0_1(x) and (y + 1) / 2; and, taking x as a
\* point of the target, (x + 1) / 2 and to_minus1_plus1_from_0_1 of it.
RoundTrip ==
    /\ probe.kind = "round_trip"
    /\ ~probe.done
    /\ probe' = [probe EXCEPT
                    !.done = TRUE,
                    !.image = to_minus1_plus1_from_0_1_float(probe.x),
                    !.back = FInverse(to_minus1_plus1_from_0_1_float(probe.x)),
                    !.preimage = FInverse(probe.x),
                    !.forth = to_minus1_plus1_from_0_1_float(FInverse(probe.x))]
    /\ UNCHANGED <<scorer, norm, risk>>

SpecRoundTrip == InitRoundTrip /\ [][RoundTrip]_vars

\* Inputs outside [0, 1] map to the endpoints -1 and 1, and the image always
\* lies in [-1, 1].
C15_Endpoints ==
    /\ probe.x <= 0 => probe.image = -FOne
    /\ probe.x >= FOne => probe.image = FOne
    /\ -FOne <= probe.image /\ probe.image <= FOne

\* C15 as stated: for every x in [0, 1], (f(x) + 1) / 2 = x; for every y in
\* [-1, 1], f((y + 1) / 2) = y; inputs outside [0, 1] map to -1 or 1.
C15_RoundTripExact ==
    (probe.kind = "round_trip" /\ probe.done) =>
        /\ (0 <= probe.x /\ probe.x <= FOne) => probe.back = probe.x
        /\ (-FOne <= probe.x /\ probe.x <= FOne) => probe.forth = probe.x
        /\ C15_Endpoints

\* The distance between two floats.
C15_Dist(a, b) == IF a >= b THEN a - b ELSE b - a

\* C15, amended: both round trips return their argument up to the rounding
\* of the addition and the subtraction, within one spacing of the floats
\* below 1.0 for x -> f(x) -> (f(x) + 1) / 2 and two for y -> (y + 1) / 2 ->
\* f, and exactly when 2x - 1 (y + 1) is itself a float; inputs outside
\* [0, 1] map to -1 or 1.
C15_RoundTripWithinRounding ==
    (probe.kind = "round_trip" /\ probe.done) =>
        LET eps == FOne \div Pow2(SignificandBits)
        IN  /\ (0 <= probe.x /\ probe.x <= FOne) =>
                  /\ C15_Dist(probe.back, probe.x) <= eps
                  /\ FRound(2 * probe.x - FOne) = 2 * probe.x - FOne =>
                        probe.back = probe.x
            /\ (-FOne <= probe.x /\ probe.x <= FOne) =>
                  /\ C15_Dist(probe.forth, probe.x) <= 2 * eps
                  /\ FRound(probe.x + FOne) = probe.x + FOne =>
                        probe.forth = probe.x
            /\ C15_Endpoints

\* A float of (0, 1) whose double minus one is a float went through f and
\* back and came out as it went in; so did its image, taken the other way.
C15_Witness ==
    /\ probe.kind = "round_trip"
    /\ probe.done
    /\ 0 < probe.x /\ probe.x < FOne
    /\ 4 * probe.x = 3 * FOne
    /\ 2 * probe.image = FOne
    /\ probe.back = probe.x
    /\ probe.forth = probe.x

-----------------------------------------------------------------------------
(* Gates, risk channels and queries of a whole call, checked under Spec    *)

\* The gate values of all groups of a breakdown, group after group.
C16_Gates(b) == C2_AllValues(b.group_outputs, "gates", Len(GroupOrder))

\* C16: when any gate emitted by any group of a returned call is 0, the
\* call's gate_multiplier is 0 and its final_score is clamp(0, score_min,
\* score_max), whatever the other groups emitted.
C16_ZeroGateZeroScore ==
    (result.kind = "breakdown"
       /\ \E i \in 1..Len(C16_Gates(result.value)) : C16_Gates(result.value)[i] = 0) =>
        /\ result.value.gate_multiplier = 0
        /\ result.value.final_score = Max(w.score_min, Min(w.score_max, 0))

\* A call returned with gates at 0 and another gate open, a base and a
\* multiplier product that are not 0, and a final score of 0.
C16_Witness ==
    /\ pc = "returned"
    /\ result.kind = "breakdown"
    /\ LET gates == C16_Gates(result.value)
       IN  /\ \E i \in 1..Len(gates) : gates[i] = 0
           /\ \E i \in 1..Len(gates) : gates[i] > 0
    /\ result.value.base_additive # 0
    /\ result.value.multiplier_product # 0
    /\ result.value.gate_multiplier = 0
    /\ result.value.final_score = 0

\* The emissions <<group, position>> of the risk channel ch in a breakdown.
C17_Emissions(b, ch) ==
    UNION {{<<g, i>> : i \in {n \in 1..Len(b.group_outputs[g].risk) :
                                b.group_outputs[g].risk[n][1] = ch}} :
             g \in DOMAIN b.group_outputs}

\* C17: in every returned call each of the six table channels is emitted,
\* execution twice, by adaptation and by capital_alloc, and the others
\* once, so the weights _aggregate_risk adds up come to 1.10 and it never
\* returns its default.
C17_AllChannelsExecutionTwice ==
    result.kind = "breakdown" =>
        LET b == result.value
        IN  /\ \A ch \in {"macro_tail", "power_constraint", "security_incident",
                          "regulatory", "geopolitical"} :
                  Cardinality(C17_Emissions(b, ch)) = 1
            /\ {e[1] : e \in C17_Emissions(b, "execution")} = {"adaptation", "capital_alloc"}
            /\ Cardinality(C17_Emissions(b, "execution")) = 2
            /\ RiskGroups([accum |-> 0, wsum |-> 0], Values(b.group_outputs), 1).wsum = 11000

\* A call returned a risk index other than the default 0.25, and its two
\* execution channels carried different values.
C17_Witness ==
    /\ pc = "returned"
    /\ result.kind = "breakdown"
    /\ result.value.risk_index # 2500
    /\ result.value.risk_index > 0
    /\ Get(result.value.group_outputs["adaptation"].risk, "execution", 0)
         # Get(result.value.group_outputs["capital_alloc"].risk, "execution", 0)

\* The get_score queries among the provider calls of a call.
C18_ScoreQueries == SelectSeq(log, LAMBDA q : q.op = "get_score")

\* C18: a returned call made its regime mixture query, if any, before every
\* signal query, and then exactly 26 get_score queries: one for each metric
\* id of METRICS_DOC and none for another id or twice, each for the call's
\* company, horizon and date with score_range (0, 1); it made no get_value
\* call of its own.
C18_QueriesOfACall ==
    pc = "returned" =>
        /\ \A i \in 1..Len(log) : log[i].op \in {"get_score", "get_regime_mixture"}
        /\ \A i \in 1..Len(log) : log[i].op = "get_regime_mixture" => i = 1
        /\ Len(C18_ScoreQueries) = 26
        /\ {C18_ScoreQueries[i].metric_id : i \in 1..Len(C18_ScoreQueries)} =
              {METRICS_DOC[i] : i \in 1..Len(METRICS_DOC)}
        /\ \A i \in 1..Len(C18_ScoreQueries) :
              /\ C18_ScoreQueries[i].company = call.company
              /\ C18_ScoreQueries[i].horizon = call.horizon
              /\ C18_ScoreQueries[i].as_of = call.as_of
              /\ C18_ScoreQueries[i].score_range = <<0, S>>

\* A call without a mixture argument and with a date returned: its first
\* provider call asked for the mixture and 26 signal queries followed.
C18_Witness ==
    /\ pc = "returned"
    /\ call.as_of # None
    /\ Len(log) = 27
    /\ log[1].op = "get_regime_mixture"
    /\ log[2].op = "get_score"
    /\ log[27].metric_id = "capital.moonshot_propensity_bad"

====
